---- MODULE Spec2Model ----
(***************************************************************************)
(* ResumeTruth-AI: the document text-extraction paths of the two API       *)
(* routes.                                                                 *)
(*   /api/analyze       multipart upload: PDF -> OCR.space (cloud OCR),    *)
(*                      DOCX -> mammoth, TXT -> utf-8; then LLM analysis.   *)
(*   /api/parse-resume  DOCX / TXT / RTF / PDF dispatcher; PDF goes to     *)
(*                      processPdf (pdfjs text layer, then canvas-stub     *)
(*                      render + tesseract OCR for pages below threshold). *)
(* Strings are sequences of one-character strings, so that join, trim and  *)
(* length are computed as the code computes them.                          *)
(***************************************************************************)
EXTENDS Naturals, Integers, Sequences, FiniteSets, TLC

VARIABLES
    pc,          \* control location of the request being served
    req,         \* the request in flight (route, content type, file, env)
    reply,       \* the HTTP response: status, error label, text, tooLong
    \* ---- /api/analyze ----
    resumeText,  \* POST's `resumeText`
    timer,       \* the setTimeout of extractWithOcrSpace
    aborted,     \* controller.abort() has been called
    fetchCount,  \* number of fetch() calls issued to OCR.space
    cloud,       \* how extractWithOcrSpace ended: kind and returned text
    cloudResp,   \* the fetch Response awaiting response.json()
    \* ---- /api/parse-resume ----
    text,        \* POST's `text`
    total,       \* processPdf: min(numPages, MAX_PAGES)
    n,           \* processPdf: index of the text-layer loop
    pageTexts,   \* processPdf: per-page text
    needsOcr,    \* processPdf: page numbers pushed for OCR
    textLayerResult, \* processPdf: joined text-layer result
    worker,      \* tesseract worker: "none" | "started" | "terminated"
    ocrIdx,      \* position of the OCR loop in needsOcr
    images,      \* cc.canvas.images of the page being rendered
    escaping,    \* an exception is propagating out of the page loop
    late,        \* number of recognize() calls that lost their race and still run
    stale,       \* number of OCR timers still armed although their race is decided
    faults,      \* exceptions thrown so far by pdfjs, tesseract, mammoth, formData
    \* ---- observation of the run (what was invoked, what each tier produced) ----
    layerText,   \* per page: the value the text-layer pass left in pageTexts
    ocrOut,      \* per page: outcome of the page's recognition race
    calls,       \* counters of tier invocations
    threw,       \* observation: pages whose text-layer extraction threw
    pdfNumPages, \* observation: pdf.numPages of the opened document
    \* ---- rgbaToBmp taken alone ----
    rgba,        \* the capture handed to rgbaToBmp: data, width, height
    bmp,         \* the Buffer rgbaToBmp returned
    \* ---- the canvas stub taken alone ----
    surf,        \* images of each StubCanvas
    hist,        \* observation: per StubCanvas, the calls made on its context
    \* ---- the home page (client) ----
    cpc,         \* what the page is doing: "ready", "parsing", "analyzing", "results"
    ui,          \* React state: isLoading, error, pendingResumeText, showLengthWarning
    parse,       \* observation: the latest answer of /api/parse-resume
    sent,        \* observation: the bodies POSTed to /api/analyze, in order
    picked,      \* observation: length choices clicked since the latest parse answer
    tries        \* clicks on the generate button so far

avars == <<resumeText, timer, aborted, fetchCount, cloud, cloudResp>>
pcore == <<text, total, n, pageTexts, needsOcr, textLayerResult, worker,
           ocrIdx, images, escaping, late, stale>>
pvars == <<pcore, faults>>
hvars == <<layerText, ocrOut, calls, threw, pdfNumPages>>
bvars == <<rgba, bmp>>
cvars == <<surf, hist>>
uvars == <<cpc, ui, parse, sent, picked, tries>>
rvars == <<pc, req, reply, avars, pvars, hvars>>
vars  == <<rvars, bvars, cvars, uvars>>

-----------------------------------------------------------------------------
(* Program constants *)

OCR_SPACE_TIMEOUT_MS == 30000
OCR_SPACE_MAX_BYTES  == 1000000
MAX_PAGES            == 10
MIN_CHARS_PER_PAGE   == 50
TOO_LONG_CHARS       == 8000
OCR_TIMEOUT_MS       == 20000

(* Bounds of the model *)

SizeMargin  == 1   \* upload sizes range over ceiling - margin .. ceiling + margin
MaxDocPages == 2   \* page counts of the PDFs explored page by page
MaxFaults   == 1   \* exceptions the libraries throw while one upload is parsed
MaxTimeouts == 1   \* recognitions that lose their race while one upload is parsed
MaxPixels   == 8   \* pixels (width * height) of the captures given to rgbaToBmp
MaxCalls    == 3   \* calls made on the contexts of the stub canvases
MaxTries    == 2   \* clicks on the generate button of the home page
MaxScanned  == 1   \* pages without text in a document longer than MAX_PAGES
MaxCaptures == 3   \* captures one page render leaves on its canvas

-----------------------------------------------------------------------------
(* Strings *)

NL == "\n"
SP == " "
WhiteSpace == {" ", "\n", "\r", "\t"}

Rep(c, k) == [i \in 1..k |-> c]

RECURSIVE Join(_, _)
Join(parts, sep) ==
    IF parts = << >> THEN << >>
    ELSE IF Len(parts) = 1 THEN parts[1]
    ELSE parts[1] \o <<sep>> \o Join(Tail(parts), sep)

RECURSIVE TrimStart(_)
TrimStart(s) ==
    IF s # << >> /\ Head(s) \in WhiteSpace THEN TrimStart(Tail(s)) ELSE s

RECURSIVE TrimEnd(_)
TrimEnd(s) ==
    IF s # << >> /\ s[Len(s)] \in WhiteSpace
    THEN TrimEnd(SubSeq(s, 1, Len(s) - 1)) ELSE s

Trim(s) == TrimEnd(TrimStart(s))

ExperienceEngineer ==
    <<"E", "x", "p", "e", "r", "i", "e", "n", "c", "e", "\n",
      "E", "n", "g", "i", "n", "e", "e", "r">>
EducationMSc ==
    <<"E", "d", "u", "c", "a", "t", "i", "o", "n", "\n", "M", "S", "c">>

-----------------------------------------------------------------------------
(* Media types and file names *)

PDF_MIME  == "application/pdf"
DOCX_MIME == "application/vnd.openxmlformats-officedocument.wordprocessingml.document"
TXT_MIME  == "text/plain"
RTF_MIME  == "application/rtf"
RTF_MIME2 == "text/rtf"
PNG_MIME  == "image/png"

Mimes == {PDF_MIME, DOCX_MIME, TXT_MIME, RTF_MIME, RTF_MIME2, PNG_MIME}
Exts  == {".pdf", ".docx", ".txt", ".rtf", ".png"}

NoReply == [status |-> 0, err |-> "", text |-> << >>, tooLong |-> FALSE]
Failure(status, err) ==
    [status |-> status, err |-> err, text |-> << >>, tooLong |-> FALSE]

NoCalls == [textLayer |-> 0, workerStart |-> 0, render |-> 0, recognize |-> 0,
            terminate |-> 0, mammoth |-> 0, decode |-> 0, timeouts |-> 0]

-----------------------------------------------------------------------------
(* /api/analyze : inputs *)

Sizes == (OCR_SPACE_MAX_BYTES - SizeMargin)..(OCR_SPACE_MAX_BYTES + SizeMargin)

\* body.resumeText of a JSON request
ResumeChoices == { << >>, <<" ", "\n">>, ExperienceEngineer }

\* raw text handed back by mammoth / Buffer.toString for DOCX and TXT uploads
RawDocChoices == { << >>, <<" ", "\t">>, <<" ">> \o EducationMSc \o <<"\r", "\n">> }

NoFile == [present |-> FALSE, mime |-> "", ext |-> "", size |-> 0]
Files(sizes) ==
    [present : {TRUE}, mime : Mimes, ext : Exts, size : sizes]

AnalyzeRequests ==
    [route : {"analyze"}, ctype : {"application/json"}, hasJob : {TRUE},
     jobOk : BOOLEAN, file : {NoFile}, hasKey : {TRUE}]
    \cup
    [route : {"analyze"}, ctype : {"text/html"}, hasJob : {TRUE},
     jobOk : {TRUE}, file : {NoFile}, hasKey : {TRUE}]
    \cup
    [route : {"analyze"}, ctype : {"multipart/form-data"}, hasJob : BOOLEAN,
     jobOk : {TRUE}, file : {NoFile}, hasKey : {TRUE}]
    \cup
    [route : {"analyze"}, ctype : {"multipart/form-data"}, hasJob : {TRUE},
     jobOk : BOOLEAN, file : Files(Sizes), hasKey : BOOLEAN]

NoRequest == [route |-> "none", ctype |-> "", hasJob |-> FALSE, jobOk |-> FALSE,
              file |-> NoFile, hasKey |-> FALSE]

\* What OCR.space can answer: HTTP status class, body parseable as JSON,
\* IsErroredOnProcessing, and the ParsedText of each ParsedResults entry.
NoResponse == [ok |-> FALSE, json |-> FALSE, errored |-> FALSE, results |-> << >>]
CloudResponses ==
    { [ok |-> FALSE, json |-> TRUE,  errored |-> FALSE, results |-> << >>],
      [ok |-> TRUE,  json |-> FALSE, errored |-> FALSE, results |-> << >>],
      [ok |-> TRUE,  json |-> TRUE,  errored |-> TRUE,  results |-> << >>],
      [ok |-> TRUE,  json |-> TRUE,  errored |-> FALSE, results |-> << >>],
      [ok |-> TRUE,  json |-> TRUE,  errored |-> FALSE,
       results |-> << <<" ", "\n">>, << >> >>],
      [ok |-> TRUE,  json |-> TRUE,  errored |-> FALSE,
       results |-> << Rep("a", MIN_CHARS_PER_PAGE - 1) \o <<"\n">> >>],
      [ok |-> TRUE,  json |-> TRUE,  errored |-> FALSE,
       results |-> << <<" ">> \o Rep("a", MIN_CHARS_PER_PAGE) \o <<"\r", "\n">> >>],
      [ok |-> TRUE,  json |-> TRUE,  errored |-> FALSE,
       results |-> << ExperienceEngineer, EducationMSc \o <<"\n">> >>] }

NoCloud == [kind |-> "none", text |-> << >>]
Thrown(kind) == [kind |-> kind, text |-> << >>]

-----------------------------------------------------------------------------
(* /api/analyze : extractWithOcrSpace *)

SizeRejectedAtCeiling(len) == len >= OCR_SPACE_MAX_BYTES
SizeRejected(len) == len > OCR_SPACE_MAX_BYTES

\* (data.ParsedResults || []).map(r => r.ParsedText || "").join("\n").trim()
OcrSpaceText(results) == Trim(Join(results, NL))

OcrSpaceOutcomeInverted(r) ==
    IF ~r.ok THEN Thrown("http")
    ELSE IF ~r.json THEN Thrown("json")
    ELSE IF r.errored THEN Thrown("errored")
    ELSE LET t == OcrSpaceText(r.results)
         IN  IF t # << >> THEN Thrown("empty") ELSE [kind |-> "ok", text |-> t]
\* lines 46-69: what the call returns or throws once the body has been read
OcrSpaceOutcome(r) ==
    IF ~r.ok THEN Thrown("http")
    ELSE IF ~r.json THEN Thrown("json")
    ELSE IF r.errored THEN Thrown("errored")
    ELSE LET t == OcrSpaceText(r.results)
         IN  IF t = << >> THEN Thrown("empty") ELSE [kind |-> "ok", text |-> t]

ClearTimeoutSkipped(t) == t
\* lines 70-72: finally { clearTimeout(timeout) }
ClearTimeout(t) == "cleared"

\* the message of the Error thrown for each way the call can fail
CloudErrorMessage(kind) ==
    CASE kind = "size"    -> "File exceeds OCR.space 1MB free-tier limit"
      [] kind = "nokey"   -> "OCR_SPACE_API_KEY is not set"
      [] kind = "http"    -> "OCR.space HTTP <status>"
      [] kind = "errored" -> "OCR processing error"
      [] kind = "empty"   -> "OCR returned empty text"
      [] kind = "abort"   -> "This operation was aborted"
      [] kind = "network" -> "fetch failed"
      [] kind = "json"    -> "Unexpected token in JSON"
      [] OTHER            -> "Analysis failed. Please try again."

\* POST's catch block: every thrown error becomes a 500 carrying its message
CatchReply(kind) ==
    Failure(500,
        IF kind = "nokey"
        THEN "Server configuration error: OCR_SPACE_API_KEY is not set."
        ELSE CloudErrorMessage(kind))

\* the if / else-if chain over (mime, filename) of the analyze route
AnalyzeBranch(mime, ext) ==
    IF mime = PDF_MIME \/ ext = ".pdf" THEN "pdf"
    ELSE IF mime = DOCX_MIME \/ ext = ".docx" THEN "docx"
    ELSE IF mime = TXT_MIME \/ ext = ".txt" THEN "txt"
    ELSE "unsupported"

-----------------------------------------------------------------------------
(* /api/analyze : POST, one action per step between awaits *)

Respond(r) == /\ reply' = r
              /\ pc' = "done"

\* a request arrives at /api/analyze
AnalyzeReceive(r) ==
    /\ pc = "idle"
    /\ req' = r
    /\ pc' = "a_parse"
    /\ UNCHANGED <<reply, avars, pvars, hvars>>

\* lines 83-161: read the body according to the content type
AnalyzeParseBody(rt, bodyThrows) ==
    /\ pc = "a_parse"
    /\ IF req.ctype = "application/json"
       THEN IF bodyThrows
            THEN /\ Respond(CatchReply("json")) /\ UNCHANGED resumeText
            ELSE /\ resumeText' = rt
                 /\ pc' = "a_validate"
                 /\ UNCHANGED reply
       ELSE /\ rt = << >>
            /\ UNCHANGED resumeText
            /\ IF req.ctype = "multipart/form-data"
               THEN IF bodyThrows
                    THEN Respond(CatchReply("json"))
                    ELSE IF ~req.hasJob
                    THEN Respond(Failure(400, "Job information is required"))
                    ELSE IF ~req.file.present
                    THEN Respond(Failure(400, "Resume file is required"))
                    ELSE /\ pc' = "a_branch"
                         /\ UNCHANGED reply
               ELSE /\ ~bodyThrows
                    /\ Respond(Failure(400, "Unsupported content type"))
    /\ UNCHANGED <<req, timer, aborted, fetchCount, cloud, cloudResp, pvars, hvars>>

\* lines 125-153: choose the extraction branch
AnalyzeDispatch ==
    /\ pc = "a_branch"
    /\ LET b == AnalyzeBranch(req.file.mime, req.file.ext)
       IN  IF b = "unsupported"
           THEN Respond(Failure(400, "Unsupported file type. Please upload PDF, DOCX, or TXT."))
           ELSE /\ pc' = (IF b = "pdf" THEN "ocr_call" ELSE "a_" \o b)
                /\ UNCHANGED reply
    /\ UNCHANGED <<req, avars, pvars, hvars>>

\* lines 14-44: the guards of extractWithOcrSpace, then the timer and the fetch
OcrSpaceCall ==
    /\ pc = "ocr_call"
    /\ IF SizeRejected(req.file.size)
       THEN /\ cloud' = Thrown("size")
            /\ Respond(CatchReply("size"))
            /\ UNCHANGED <<timer, fetchCount>>
       ELSE IF ~req.hasKey
       THEN /\ cloud' = Thrown("nokey")
            /\ Respond(CatchReply("nokey"))
            /\ UNCHANGED <<timer, fetchCount>>
       ELSE /\ timer' = "armed"
            /\ fetchCount' = fetchCount + 1
            /\ pc' = "ocr_fetch"
            /\ UNCHANGED <<cloud, reply>>
    /\ UNCHANGED <<req, resumeText, aborted, cloudResp, pvars, hvars>>

\* the timer expires while fetch() or response.json() is pending: abort, the
\* pending promise rejects, finally clears the timer, POST's catch answers 500
OcrSpaceTimeout ==
    /\ pc \in {"ocr_fetch", "ocr_json"}
    /\ timer = "armed"
    /\ aborted' = TRUE
    /\ timer' = "fired"
    /\ cloud' = Thrown("abort")
    /\ Respond(CatchReply("abort"))
    /\ UNCHANGED <<req, resumeText, fetchCount, cloudResp, pvars, hvars>>

\* fetch() rejects (network failure): finally clears the timer
OcrSpaceNetworkError ==
    /\ pc = "ocr_fetch"
    /\ timer' = ClearTimeout(timer)
    /\ cloud' = Thrown("network")
    /\ Respond(CatchReply("network"))
    /\ UNCHANGED <<req, resumeText, aborted, fetchCount, cloudResp, pvars, hvars>>

\* lines 40-48: fetch() resolves with a Response
OcrSpaceResponse(r) ==
    /\ pc = "ocr_fetch"
    /\ cloudResp' = r
    /\ IF ~r.ok
       THEN /\ timer' = ClearTimeout(timer)
            /\ cloud' = OcrSpaceOutcome(r)
            /\ Respond(CatchReply(OcrSpaceOutcome(r).kind))
       ELSE /\ pc' = "ocr_json"
            /\ UNCHANGED <<timer, cloud, reply>>
    /\ UNCHANGED <<req, resumeText, aborted, fetchCount, pvars, hvars>>

\* lines 50-72 and 127: the body is read; the call returns its text or throws
OcrSpaceBody ==
    /\ pc = "ocr_json"
    /\ timer' = ClearTimeout(timer)
    /\ LET out == OcrSpaceOutcome(cloudResp)
       IN  /\ cloud' = out
           /\ IF out.kind = "ok"
              THEN /\ resumeText' = out.text
                   /\ pc' = "a_validate"
                   /\ UNCHANGED reply
              ELSE /\ Respond(CatchReply(out.kind))
                   /\ UNCHANGED resumeText
    /\ UNCHANGED <<req, aborted, fetchCount, cloudResp, pvars, hvars>>

\* lines 131-138: DOCX through mammoth
AnalyzeDocx(raw, throws) ==
    /\ pc = "a_docx"
    /\ calls' = [calls EXCEPT !.mammoth = @ + 1]
    /\ IF throws
       THEN /\ raw = << >>
            /\ Respond(CatchReply("mammoth"))
            /\ UNCHANGED resumeText
       ELSE /\ resumeText' = Trim(raw)
            /\ pc' = "a_validate"
            /\ UNCHANGED reply
    /\ UNCHANGED <<req, timer, aborted, fetchCount, cloud, cloudResp, pvars,
                   layerText, threw, pdfNumPages, ocrOut>>

\* lines 141-143: TXT decoded as utf-8
AnalyzeTxt(raw) ==
    /\ pc = "a_txt"
    /\ calls' = [calls EXCEPT !.decode = @ + 1]
    /\ resumeText' = Trim(raw)
    /\ pc' = "a_validate"
    /\ UNCHANGED <<req, reply, timer, aborted, fetchCount, cloud, cloudResp, pvars,
                   layerText, threw, pdfNumPages, ocrOut>>

\* lines 166-192: validation, then the LLM analysis
AnalyzeValidate(llmThrows) ==
    /\ pc = "a_validate"
    /\ IF Trim(resumeText) = << >>
       THEN /\ ~llmThrows
            /\ Respond(Failure(422, "Could not extract resume text."))
       ELSE IF ~req.jobOk
       THEN /\ ~llmThrows
            /\ Respond(Failure(400, "Job title and description are required"))
       ELSE IF llmThrows
       THEN Respond(CatchReply("llm"))
       ELSE Respond([status |-> 200, err |-> "", text |-> << >>, tooLong |-> FALSE])
    /\ UNCHANGED <<req, avars, pvars, hvars>>

AnalyzeNext ==
    \/ pc = "idle" /\ \E r \in AnalyzeRequests : AnalyzeReceive(r)
    \/ \E rt \in ResumeChoices, b \in BOOLEAN : AnalyzeParseBody(rt, b)
    \/ AnalyzeDispatch
    \/ OcrSpaceCall
    \/ OcrSpaceTimeout
    \/ OcrSpaceNetworkError
    \/ \E r \in CloudResponses : OcrSpaceResponse(r)
    \/ OcrSpaceBody
    \/ \E raw \in RawDocChoices, b \in BOOLEAN : AnalyzeDocx(raw, b)
    \/ \E raw \in RawDocChoices : AnalyzeTxt(raw)
    \/ \E b \in BOOLEAN : AnalyzeValidate(b)

-----------------------------------------------------------------------------
(* /api/parse-resume : inputs *)

\* a body that request.formData() cannot read carries no usable file
ParseRequests ==
    [route : {"parse"}, ctype : {"multipart/form-data"}, hasJob : {FALSE},
     jobOk : {FALSE}, file : {NoFile} \cup Files({OCR_SPACE_MAX_BYTES}),
     hasKey : {FALSE}]
    \cup
    [route : {"parse"}, ctype : {"malformed"}, hasJob : {FALSE},
     jobOk : {FALSE}, file : {NoFile}, hasKey : {FALSE}]

\* suffixes of file names as uploaded, before toLowerCase()
MixedCaseExts == {".PDF", ".Docx"}

\* uploads of every media type under every name, lower-case or not
DispatchRequests ==
    ParseRequests \cup
    [route : {"parse"}, ctype : {"multipart/form-data"}, hasJob : {FALSE},
     jobOk : {FALSE},
     file : [present : {TRUE}, mime : Mimes, ext : MixedCaseExts,
             size : {OCR_SPACE_MAX_BYTES}],
     hasKey : {FALSE}]

\* content.items of one page: the `str` of each text item
ItemChoices ==
    { << <<"\t">>, << >> >>,
      << ExperienceEngineer >>,
      << <<"\t">>, Rep("a", MIN_CHARS_PER_PAGE - 25), Rep("b", 24) >> }

\* cc.canvas.images after page.render: width and height of each capture
Img(w, h) == [width |-> w, height |-> h]
RenderChoices == { << >>, << Img(1, 2), Img(3, 1), Img(1, 3) >> }

\* r.data.text of a finished recognition (null counts as "")
OcrChoices == { << >>, EducationMSc \o <<"\n">> }

\* the same, and a text as long as the text layer of the first sample page
TieOcrChoices == OcrChoices \cup { Rep("z", Len(ExperienceEngineer)) }

\* an ordinary PDF upload: PDF media type and a .pdf name
PdfRequests ==
    { r \in ParseRequests :
        r.file.present /\ r.file.mime = PDF_MIME /\ r.file.ext = ".pdf" }

\* decoded TXT uploads at and just above the tooLong threshold
LongDocChoices ==
    { Rep("x", TOO_LONG_CHARS), Rep("x", TOO_LONG_CHARS + 1) }

NoOcr == [last |-> "none", won |-> FALSE, text |-> << >>]

-----------------------------------------------------------------------------
(* /api/parse-resume : pure parts of POST and processPdf *)

\* file.name.toLowerCase(), as far as the suffix goes
ToLowerCase(ext) ==
    CASE ext = ".PDF"  -> ".pdf"
      [] ext = ".Docx" -> ".docx"
      [] OTHER         -> ext

ParseBranchPdfFirst(mime, ext) ==
    IF mime = PDF_MIME \/ ext = ".pdf" THEN "pdf"
    ELSE IF mime = DOCX_MIME \/ ext = ".docx" THEN "docx"
    ELSE IF mime = TXT_MIME \/ ext = ".txt" THEN "txt"
    ELSE IF mime = RTF_MIME \/ mime = RTF_MIME2 \/ ext = ".rtf" THEN "rtf"
    ELSE "unsupported"
ParseBranchPdfByDefault(mime, ext) ==
    IF mime = DOCX_MIME \/ ext = ".docx" THEN "docx"
    ELSE IF mime = TXT_MIME \/ ext = ".txt" THEN "txt"
    ELSE IF mime = RTF_MIME \/ mime = RTF_MIME2 \/ ext = ".rtf" THEN "rtf"
    ELSE "pdf"
\* the if / else-if chain over (mime, filename) of the parse-resume route
ParseBranch(mime, ext) ==
    IF mime = DOCX_MIME \/ ext = ".docx" THEN "docx"
    ELSE IF mime = TXT_MIME \/ ext = ".txt" THEN "txt"
    ELSE IF mime = RTF_MIME \/ mime = RTF_MIME2 \/ ext = ".rtf" THEN "rtf"
    ELSE IF mime = PDF_MIME \/ ext = ".pdf" THEN "pdf"
    ELSE "unsupported"

UnsupportedReply ==
    Failure(400, "Unsupported file type. Please upload a PDF, DOCX, TXT, or RTF file.")
GenericFailure ==
    Failure(500, "Failed to parse resume. Please try a different file.")
EmptyResultReply ==
    Failure(422, "Could not extract text from this file. If it is a scanned PDF, please convert it to a text-based PDF or DOCX for best results.")

FinalReplyAtThreshold(t) ==
    IF t = << >> THEN EmptyResultReply
    ELSE [status |-> 200, err |-> "", text |-> t,
          tooLong |-> Len(t) >= TOO_LONG_CHARS]
FinalReplyUnchecked(t) ==
    [status |-> 200, err |-> "", text |-> t, tooLong |-> Len(t) > TOO_LONG_CHARS]
\* lines 357-369: the answer for an extracted text
FinalReply(t) ==
    IF t = << >> THEN EmptyResultReply
    ELSE [status |-> 200, err |-> "", text |-> t,
          tooLong |-> Len(t) > TOO_LONG_CHARS]

MinUnlimited(a, b) == a
Min(a, b) == IF a <= b THEN a ELSE b

\* content.items.map(str).join(" ").trim()
PageText(items) == Trim(Join(items, SP))

\* t.length < MIN_CHARS_PER_PAGE
NeedsOcr(t) == Len(t) < MIN_CHARS_PER_PAGE

JoinPagesWithSpaces(pages) == Trim(Join(pages, SP))
JoinPagesUntrimmed(pages) == Join(pages, NL)
\* pageTexts.join("\n").trim()
JoinPages(pages) == Trim(Join(pages, NL))

LongerOrEqual(ocrResult, layerResult) ==
    IF Len(ocrResult) >= Len(layerResult) THEN ocrResult ELSE layerResult
Shorter(ocrResult, layerResult) ==
    IF Len(ocrResult) < Len(layerResult) THEN ocrResult ELSE layerResult
\* ocrResult.length > textLayerResult.length ? ocrResult : textLayerResult
Longer(ocrResult, layerResult) ==
    IF Len(ocrResult) > Len(layerResult) THEN ocrResult ELSE layerResult

Area(img) == img.width * img.height

RECURSIVE LargestPreferringLater(_, _)
LargestPreferringLater(a, rest) ==
    IF rest = << >> THEN a
    ELSE LargestPreferringLater(IF Area(a) > Area(Head(rest)) THEN a ELSE Head(rest),
                                Tail(rest))
\* images.reduce((a, b) => area(a) >= area(b) ? a : b)
RECURSIVE Largest(_, _)
Largest(a, rest) ==
    IF rest = << >> THEN a
    ELSE Largest(IF Area(a) >= Area(Head(rest)) THEN a ELSE Head(rest), Tail(rest))
BestImage(imgs) == Largest(Head(imgs), Tail(imgs))

\* ocrText.trim(), the value stored for a page whose recognition won the race
OcrPageText(raw) == Trim(raw)

-----------------------------------------------------------------------------
(* /api/parse-resume : POST and processPdf, one action per step between awaits *)

\* a library call throws only while the budget of injected exceptions lasts
Injected(throws) ==
    IF throws THEN faults < MaxFaults /\ faults' = faults + 1
    ELSE faults' = faults
InjectedBoth(a, b) ==
    LET k == (IF a THEN 1 ELSE 0) + (IF b THEN 1 ELSE 0)
    IN  faults + k <= MaxFaults /\ faults' = faults + k

\* a request arrives at /api/parse-resume
ParseReceive(r) ==
    /\ Injected(FALSE)
    /\ pc = "idle"
    /\ req' = r
    /\ pc' = "p_parse"
    /\ UNCHANGED <<reply, avars, pcore, hvars>>

\* lines 303-355: read the form, then choose the extraction branch
ParseDispatch ==
    /\ Injected(FALSE)
    /\ pc = "p_parse"
    /\ IF req.ctype # "multipart/form-data" THEN Respond(GenericFailure)
       ELSE IF ~req.file.present THEN Respond(Failure(400, "No file provided"))
       ELSE LET b == ParseBranch(req.file.mime, ToLowerCase(req.file.ext))
            IN  IF b = "unsupported" THEN Respond(UnsupportedReply)
                ELSE /\ pc' = (IF b = "pdf" THEN "pdf_import" ELSE "p_" \o b)
                     /\ UNCHANGED reply
    /\ UNCHANGED <<req, avars, pcore, hvars>>

\* lines 318-323: DOCX through mammoth
ParseDocx(raw, throws) ==
    /\ Injected(throws)
    /\ pc = "p_docx"
    /\ calls' = [calls EXCEPT !.mammoth = @ + 1]
    /\ IF throws
       THEN /\ raw = << >>
            /\ Respond(GenericFailure)
            /\ UNCHANGED text
       ELSE /\ text' = Trim(raw)
            /\ pc' = "p_check"
            /\ UNCHANGED reply
    /\ UNCHANGED <<req, avars, total, n, pageTexts, needsOcr, textLayerResult,
                   worker, ocrIdx, images, escaping, late, stale, layerText, threw, pdfNumPages, ocrOut>>

\* lines 326-327: TXT decoded as utf-8
ParseTxt(raw) ==
    /\ Injected(FALSE)
    /\ pc = "p_txt"
    /\ calls' = [calls EXCEPT !.decode = @ + 1]
    /\ text' = Trim(raw)
    /\ pc' = "p_check"
    /\ UNCHANGED <<req, reply, avars, total, n, pageTexts, needsOcr,
                   textLayerResult, worker, ocrIdx, images, escaping, late, stale,
                   layerText, threw, pdfNumPages, ocrOut>>

\* lines 330-343: RTF; `stripped` is the buffer after the chain of replace()
\* calls, which the environment fixes; the final trim() is the code's
ParseRtf(stripped) ==
    /\ Injected(FALSE)
    /\ pc = "p_rtf"
    /\ calls' = [calls EXCEPT !.decode = @ + 1]
    /\ text' = Trim(stripped)
    /\ pc' = "p_check"
    /\ UNCHANGED <<req, reply, avars, total, n, pageTexts, needsOcr,
                   textLayerResult, worker, ocrIdx, images, escaping, late, stale,
                   layerText, threw, pdfNumPages, ocrOut>>

\* lines 176-189: import of pdfjs-dist; a failure makes processPdf return ""
PdfImport(throws) ==
    /\ Injected(throws)
    /\ pc = "pdf_import"
    /\ IF throws
       THEN /\ text' = << >>
            /\ pc' = "p_check"
       ELSE /\ pc' = "pdf_open"
            /\ UNCHANGED text
    /\ UNCHANGED <<req, reply, avars, total, n, pageTexts, needsOcr,
                   textLayerResult, worker, ocrIdx, images, escaping, late, stale, hvars>>

\* lines 192-208: getDocument; on success the per-page state is set up
PdfOpen(numPages, throws) ==
    /\ Injected(throws)
    /\ pc = "pdf_open"
    /\ calls' = [calls EXCEPT !.textLayer = @ + 1]
    /\ IF throws
       THEN /\ numPages = 1
            /\ text' = << >>
            /\ pc' = "p_check"
            /\ UNCHANGED <<total, n, pageTexts, needsOcr, layerText, threw, ocrOut,
                           pdfNumPages>>
       ELSE /\ pdfNumPages' = numPages
            /\ total' = Min(numPages, MAX_PAGES)
            /\ pageTexts' = Rep(<< >>, total')
            /\ layerText' = Rep(<< >>, total')
            /\ ocrOut' = Rep(NoOcr, total')
            /\ needsOcr' = << >>
            /\ n' = 1
            /\ pc' = "t1_loop"
            /\ UNCHANGED <<text, threw>>
    /\ UNCHANGED <<req, reply, avars, textLayerResult, worker, ocrIdx, images,
                   escaping, late, stale>>

\* lines 211-226, one iteration: getPage or getTextContent throws
TextLayerPageThrows ==
    /\ Injected(TRUE)
    /\ pc = "t1_loop"
    /\ n <= total
    /\ needsOcr' = Append(needsOcr, n)
    /\ threw' = threw \cup {n}
    /\ n' = n + 1
    /\ UNCHANGED <<pc, req, reply, avars, text, total, pageTexts, textLayerResult,
                   worker, ocrIdx, images, escaping, late, stale, layerText, ocrOut, calls,
                   pdfNumPages>>

\* lines 211-226, one iteration: the text is read and classified; cleanup may
\* throw afterwards, which lands in the same catch
TextLayerPage(items, cleanupThrows) ==
    /\ Injected(cleanupThrows)
    /\ pc = "t1_loop"
    /\ n <= total
    /\ LET t == PageText(items)
           pushed == IF NeedsOcr(t) THEN Append(needsOcr, n) ELSE needsOcr
       IN  /\ pageTexts' = [pageTexts EXCEPT ![n] = t]
           /\ layerText' = [layerText EXCEPT ![n] = t]
           /\ needsOcr' = IF cleanupThrows THEN Append(pushed, n) ELSE pushed
           /\ threw' = IF cleanupThrows THEN threw \cup {n} ELSE threw
    /\ n' = n + 1
    /\ UNCHANGED <<pc, req, reply, avars, text, total, textLayerResult, worker,
                   ocrIdx, images, escaping, late, stale, ocrOut, calls, pdfNumPages>>

\* lines 228-233: the text-layer result; return it when no page needs OCR
TextLayerDone ==
    /\ Injected(FALSE)
    /\ pc = "t1_loop"
    /\ n > total
    /\ textLayerResult' = JoinPages(pageTexts)
    /\ IF needsOcr = << >>
       THEN /\ text' = textLayerResult'
            /\ pc' = "p_check"
       ELSE /\ pc' = "worker_start"
            /\ UNCHANGED text
    /\ UNCHANGED <<req, reply, avars, total, n, pageTexts, needsOcr, worker,
                   ocrIdx, images, escaping, late, stale, hvars>>

\* lines 236-246: start the tesseract worker; a failure returns the text layer
WorkerStart(throws) ==
    /\ Injected(throws)
    /\ pc = "worker_start"
    /\ IF throws
       THEN /\ text' = textLayerResult
            /\ pc' = "p_check"
            /\ UNCHANGED <<worker, ocrIdx, calls>>
       ELSE /\ worker' = "started"
            /\ calls' = [calls EXCEPT !.workerStart = @ + 1]
            /\ ocrIdx' = 1
            /\ pc' = "ocr_loop"
            /\ UNCHANGED text
    /\ UNCHANGED <<req, reply, avars, total, n, pageTexts, needsOcr,
                   textLayerResult, images, escaping, late, stale, layerText, threw, pdfNumPages, ocrOut>>

PageFinallyLeavingLoop(cleanupThrows) ==
    /\ escaping' = cleanupThrows
    /\ pc' = "ocr_exit"
    /\ UNCHANGED ocrIdx
\* lines 286-290, run synchronously once the page's try block is left: cleanup,
\* destroy, then the next entry of needsOcr; a throwing cleanup leaves the loop
PageFinally(cleanupThrows) ==
    IF cleanupThrows
    THEN /\ escaping' = TRUE
         /\ pc' = "ocr_exit"
         /\ UNCHANGED ocrIdx
    ELSE /\ ocrIdx' = ocrIdx + 1
         /\ pc' = (IF ocrIdx + 1 > Len(needsOcr) THEN "ocr_exit" ELSE "ocr_loop")
         /\ UNCHANGED escaping

\* lines 160-163: factory.create makes a new StubCanvas, whose images are []
FactoryCreate == << >>
\* lines 164-166: factory.reset sets cc.canvas.images = []
FactoryReset(imgs) == << >>
FactoryDestroyKeeping(imgs) == imgs
\* line 167: factory.destroy sets cc.canvas.images = []
FactoryDestroy(imgs) == << >>

\* factory.destroy(cc) empties the captures, unless cleanup threw before it
AfterDestroy(imgs, cleanupThrows) ==
    IF cleanupThrows THEN imgs ELSE FactoryDestroy(imgs)

\* lines 249-255: getPage of the next entry fails: continue with the one after
OcrGetPageThrows ==
    /\ Injected(TRUE)
    /\ pc = "ocr_loop"
    /\ ocrIdx' = ocrIdx + 1
    /\ pc' = (IF ocrIdx + 1 > Len(needsOcr) THEN "ocr_exit" ELSE "ocr_loop")
    /\ UNCHANGED <<req, reply, avars, text, total, n, pageTexts, needsOcr,
                   textLayerResult, worker, images, escaping, late, stale, hvars>>

\* lines 252-266: getPage succeeds, a fresh canvas is created; getViewport may
\* throw (caught at 284), otherwise the render is started
OcrGetPage(viewportThrows, cleanupThrows) ==
    /\ InjectedBoth(viewportThrows, cleanupThrows)
    /\ pc = "ocr_loop"
    /\ images' = IF viewportThrows
                 THEN AfterDestroy(FactoryCreate, cleanupThrows)
                 ELSE FactoryReset(FactoryCreate)
    /\ IF viewportThrows
       THEN PageFinally(cleanupThrows)
       ELSE /\ ~cleanupThrows
            /\ pc' = "ocr_render"
            /\ UNCHANGED <<ocrIdx, escaping>>
    /\ UNCHANGED <<req, reply, avars, text, total, n, pageTexts, needsOcr,
                   textLayerResult, worker, late, stale, hvars>>

\* lines 262-280: the render settles with `captured` in cc.canvas.images; when it
\* succeeded with a capture, the largest one goes to worker.recognize
OcrRender(captured, throws, cleanupThrows) ==
    /\ InjectedBoth(throws, cleanupThrows)
    /\ pc = "ocr_render"
    /\ IF throws \/ captured = << >>
       THEN /\ PageFinally(cleanupThrows)
            /\ images' = AfterDestroy(captured, cleanupThrows)
            /\ calls' = [calls EXCEPT !.render = @ + 1]
       ELSE /\ ~cleanupThrows
            /\ images' = captured
            /\ pc' = "ocr_race"
            /\ calls' = [calls EXCEPT !.render = @ + 1, !.recognize = @ + 1]
            /\ UNCHANGED <<ocrIdx, escaping>>
    /\ UNCHANGED <<req, reply, avars, text, total, n, pageTexts, needsOcr,
                   textLayerResult, worker, late, stale, layerText, threw, pdfNumPages, ocrOut>>

\* lines 276-282: recognize resolves before the timer
OcrRecognized(raw, cleanupThrows) ==
    /\ Injected(cleanupThrows)
    /\ pc = "ocr_race"
    /\ LET p == needsOcr[ocrIdx]
       IN  /\ pageTexts' = [pageTexts EXCEPT ![p] = OcrPageText(raw)]
           /\ ocrOut' = [ocrOut EXCEPT ![p] =
                            [last |-> "text", won |-> TRUE, text |-> Trim(raw)]]
    /\ stale' = stale + 1
    /\ PageFinally(cleanupThrows)
    /\ images' = AfterDestroy(images, cleanupThrows)
    /\ UNCHANGED <<req, reply, avars, text, total, n, needsOcr, textLayerResult,
                   worker, late, layerText, threw, pdfNumPages, calls>>

\* lines 276-285: recognize rejects before the timer
OcrRejected(cleanupThrows) ==
    /\ InjectedBoth(TRUE, cleanupThrows)
    /\ pc = "ocr_race"
    /\ ocrOut' = [ocrOut EXCEPT ![needsOcr[ocrIdx]].last = "error"]
    /\ stale' = stale + 1
    /\ PageFinally(cleanupThrows)
    /\ images' = AfterDestroy(images, cleanupThrows)
    /\ UNCHANGED <<req, reply, avars, text, total, n, pageTexts, needsOcr,
                   textLayerResult, worker, late, layerText, threw, pdfNumPages, calls>>

\* lines 278-285: the OCR_TIMEOUT_MS timer rejects first; recognize keeps running
OcrTimeout(cleanupThrows) ==
    /\ Injected(cleanupThrows)
    /\ pc = "ocr_race"
    /\ calls.timeouts < MaxTimeouts
    /\ calls' = [calls EXCEPT !.timeouts = @ + 1]
    /\ ocrOut' = [ocrOut EXCEPT ![needsOcr[ocrIdx]].last = "timeout"]
    /\ late' = late + 1
    /\ PageFinally(cleanupThrows)
    /\ images' = AfterDestroy(images, cleanupThrows)
    /\ UNCHANGED <<req, reply, avars, text, total, n, pageTexts, needsOcr,
                   textLayerResult, worker, stale, layerText, threw, pdfNumPages>>

LateRecognitionStoring(raw) ==
    /\ Injected(FALSE)
    /\ late > 0
    /\ late' = late - 1
    /\ pageTexts' = [p \in 1..Len(pageTexts) |-> OcrPageText(raw)]
    /\ UNCHANGED <<pc, req, reply, avars, text, total, n, needsOcr,
                   textLayerResult, worker, ocrIdx, images, escaping, stale, hvars>>
\* lines 277-278: a recognition that lost its race settles later; the promise
\* Promise.race returned is already rejected, so the value goes nowhere
LateRecognition(raw) ==
    /\ Injected(FALSE)
    /\ late > 0
    /\ late' = late - 1
    /\ UNCHANGED <<pc, req, reply, avars, text, total, n, pageTexts, needsOcr,
                   textLayerResult, worker, ocrIdx, images, escaping, stale, hvars>>

\* lines 278-279: the timer of a page, never cleared, fires after the race of
\* that page was decided by recognize; its rejection goes nowhere
TimerFiresLate ==
    /\ Injected(FALSE)
    /\ stale > 0
    /\ stale' = stale - 1
    /\ UNCHANGED <<pc, req, reply, avars, text, total, n, pageTexts, needsOcr,
                   textLayerResult, worker, ocrIdx, images, escaping, late, hvars>>

WorkerAfterLoopOnly(esc) == IF esc THEN "started" ELSE "terminated"
\* lines 291-294: the outer finally runs worker.terminate() whether the loop
\* ended normally or an exception is escaping
WorkerAfterPass(esc) == "terminated"

\* lines 291-298 and 371-376: terminate the worker, destroy the document, then
\* return the longer result, or let the escaping exception reach POST's catch
OcrExit ==
    /\ Injected(FALSE)
    /\ pc = "ocr_exit"
    /\ worker' = WorkerAfterPass(escaping)
    /\ calls' = [calls EXCEPT !.terminate =
                            IF worker' = "terminated" THEN @ + 1 ELSE @]
    /\ IF escaping
       THEN /\ Respond(GenericFailure)
            /\ UNCHANGED text
       ELSE /\ text' = Longer(JoinPages(pageTexts), textLayerResult)
            /\ pc' = "p_check"
            /\ UNCHANGED reply
    /\ UNCHANGED <<req, avars, total, n, pageTexts, needsOcr, textLayerResult,
                   ocrIdx, images, escaping, late, stale, layerText, threw, pdfNumPages, ocrOut>>

\* lines 357-369: 422 for an empty text, otherwise the text and its tooLong flag
ParseCheck ==
    /\ Injected(FALSE)
    /\ pc = "p_check"
    /\ Respond(FinalReply(text))
    /\ UNCHANGED <<req, avars, pcore, hvars>>

\* processPdf and the answer for its text; `ocr` is what a recognition may return
PdfSteps(ocr) ==
    \/ \E b \in BOOLEAN : PdfImport(b)
    \/ \E k \in 1..MaxDocPages, b \in BOOLEAN : PdfOpen(k, b)
    \/ TextLayerPageThrows
    \/ \E it \in ItemChoices, b \in BOOLEAN : TextLayerPage(it, b)
    \/ TextLayerDone
    \/ \E b \in BOOLEAN : WorkerStart(b)
    \/ OcrGetPageThrows
    \/ \E v \in BOOLEAN, b \in BOOLEAN : OcrGetPage(v, b)
    \/ \E c \in RenderChoices, t \in BOOLEAN, b \in BOOLEAN : OcrRender(c, t, b)
    \/ \E raw \in ocr, b \in BOOLEAN : OcrRecognized(raw, b)
    \/ \E b \in BOOLEAN : OcrRejected(b)
    \/ \E b \in BOOLEAN : OcrTimeout(b)
    \/ \E raw \in ocr : LateRecognition(raw)
    \/ OcrExit
    \/ ParseCheck

ParseNext ==
    \/ pc = "idle" /\ \E r \in ParseRequests : ParseReceive(r)
    \/ ParseDispatch
    \/ \E raw \in RawDocChoices, b \in BOOLEAN : ParseDocx(raw, b)
    \/ \E raw \in RawDocChoices \cup LongDocChoices : ParseTxt(raw)
    \/ \E raw \in RawDocChoices : ParseRtf(raw)
    \/ PdfSteps(OcrChoices)

\* /api/parse-resume handling ordinary PDF uploads, with the promises left
\* behind by the races of the OCR pass settling at any later time; no library
\* call throws except recognize
RaceNext ==
    /\ \/ pc = "idle" /\ \E r \in PdfRequests : ParseReceive(r)
       \/ ParseDispatch
       \/ PdfImport(FALSE)
       \/ \E k \in 1..MaxDocPages : PdfOpen(k, FALSE)
       \/ \E it \in ItemChoices : TextLayerPage(it, FALSE)
       \/ TextLayerDone
       \/ WorkerStart(FALSE)
       \/ OcrGetPage(FALSE, FALSE)
       \/ \E c \in RenderChoices : OcrRender(c, FALSE, FALSE)
       \/ \E raw \in OcrChoices : OcrRecognized(raw, FALSE)
       \/ OcrRejected(FALSE)
       \/ OcrTimeout(FALSE)
       \/ \E raw \in OcrChoices : LateRecognition(raw)
       \/ TimerFiresLate
       \/ OcrExit
       \/ ParseCheck
    /\ UNCHANGED <<bvars, cvars, uvars>>

\* /api/parse-resume handling uploads of every kind; no library call throws
\* except the start of the OCR worker, which always does
DispatchNext ==
    /\ \/ pc = "idle" /\ \E r \in DispatchRequests : ParseReceive(r)
       \/ ParseDispatch
       \/ \E raw \in RawDocChoices : ParseDocx(raw, FALSE)
       \/ \E raw \in RawDocChoices : ParseTxt(raw)
       \/ \E raw \in RawDocChoices : ParseRtf(raw)
       \/ PdfImport(FALSE)
       \/ \E k \in 1..MaxDocPages : PdfOpen(k, FALSE)
       \/ \E it \in ItemChoices : TextLayerPage(it, FALSE)
       \/ TextLayerDone
       \/ WorkerStart(TRUE)
       \/ ParseCheck
    /\ UNCHANGED <<bvars, cvars, uvars>>

\* /api/parse-resume handling ordinary PDF uploads only
PdfNext ==
    /\ \/ pc = "idle" /\ \E r \in PdfRequests : ParseReceive(r)
       \/ ParseDispatch
       \/ PdfSteps(TieOcrChoices)
    /\ UNCHANGED <<bvars, cvars, uvars>>

\* pdf.numPages of documents at and beyond the page limit
LongPageCounts == { MAX_PAGES, MAX_PAGES + MaxDocPages }

\* content.items of the pages of such a document: a scanned page without text
\* or a page with MIN_CHARS_PER_PAGE characters
LongItemChoices ==
    { << <<"\t">>, << >> >>,
      << <<"\t">>, Rep("a", MIN_CHARS_PER_PAGE - 25), Rep("b", 24) >> }

\* /api/parse-resume handling PDF uploads of MAX_PAGES pages and more, of
\* which at most MaxScanned pages have no text, while no library call throws
\* and no recognition runs into its timer
LongPdfNext ==
    /\ \/ pc = "idle" /\ \E r \in PdfRequests : ParseReceive(r)
       \/ ParseDispatch
       \/ PdfImport(FALSE)
       \/ \E k \in LongPageCounts : PdfOpen(k, FALSE)
       \/ \E it \in LongItemChoices :
            /\ NeedsOcr(PageText(it)) => Len(needsOcr) < MaxScanned
            /\ TextLayerPage(it, FALSE)
       \/ TextLayerDone
       \/ WorkerStart(FALSE)
       \/ OcrGetPage(FALSE, FALSE)
       \/ \E c \in RenderChoices : OcrRender(c, FALSE, FALSE)
       \/ \E raw \in OcrChoices : OcrRecognized(raw, FALSE)
       \/ OcrExit
       \/ ParseCheck
    /\ UNCHANGED <<bvars, cvars, uvars>>

-----------------------------------------------------------------------------
(* rgbaToBmp: RGBA pixels to a 24-bit BMP file; buffers are sequences of     *)
(* bytes, index i of the code being element i + 1                           *)

NoCapture == [data |-> << >>, width |-> 0, height |-> 0]

\* RGBA values of a pixel
Palette == { <<1, 2, 3, 4>>, <<250, 128, 0, 255>> }

RECURSIVE Flatten(_)
Flatten(pixels) ==
    IF pixels = << >> THEN << >> ELSE Head(pixels) \o Flatten(Tail(pixels))

\* captures of every width and height with at most MaxPixels pixels, every
\* pixel taken from the palette
RgbaInputs ==
    UNION { { [data |-> Flatten(px), width |-> d[1], height |-> d[2]] :
                px \in [1..(d[1] * d[2]) -> Palette] } :
            d \in { e \in (1..MaxPixels) \X (1..MaxPixels) : e[1] * e[2] <= MaxPixels } }

\* Buffer.writeUInt32LE / writeInt32LE / writeUInt16LE: little-endian bytes
LE(v, k) == [i \in 1..k |-> (v \div (256 ^ (i - 1))) % 256]
UInt32LE(v) == LE(v, 4)
\* two's complement of a negative v: the complemented bytes of -(v + 1)
Int32LE(v) ==
    IF v < 0 THEN [i \in 1..4 |-> 255 - LE(0 - (v + 1), 4)[i]] ELSE LE(v, 4)
UInt16LE(v) == LE(v, 2)

\* buf.writeX(value, off): the bytes land at off .. off + k - 1
Write(buf, bytes, off) ==
    [i \in 1..Len(buf) |->
        IF i > off /\ i <= off + Len(bytes) THEN bytes[i - off] ELSE buf[i]]

RowBytesUnpadded(w) == w * 3
\* Math.ceil((w * 3) / 4) * 4
RowBytes(w) == ((w * 3 + 3) \div 4) * 4

\* lines 28-42: the zero-filled buffer with the two headers written
BmpHeader(w, h) ==
    LET pixelBytes == RowBytes(w) * h
        fileSize   == 54 + pixelBytes
        b0  == Rep(0, fileSize)
        b1  == Write(b0, <<66, 77>>, 0)
        b2  == Write(b1, UInt32LE(fileSize), 2)
        b3  == Write(b2, UInt32LE(54), 10)
        b4  == Write(b3, UInt32LE(40), 14)
        b5  == Write(b4, Int32LE(w), 18)
        b6  == Write(b5, Int32LE(0 - h), 22)
        b7  == Write(b6, UInt16LE(1), 26)
        b8  == Write(b7, UInt16LE(24), 28)
        b9  == Write(b8, UInt32LE(0), 30)
        b10 == Write(b9, UInt32LE(pixelBytes), 34)
        b11 == Write(b10, Int32LE(2835), 38)
    IN  Write(b11, Int32LE(2835), 42)

RgbaToBmpKeepingOrder(data, w, h) ==
    LET hdr == BmpHeader(w, h)
    IN  [i \in 1..Len(hdr) |->
            LET off == i - 1 - 54
                y   == off \div RowBytes(w)
                c   == off % RowBytes(w)
            IN  IF i <= 54 \/ c >= 3 * w THEN hdr[i]
                ELSE data[(y * w + (c \div 3)) * 4 + (c % 3) + 1]]
\* lines 44-52: every pixel (x, y) stores rgba[src + 2], rgba[src + 1], rgba[src]
\* at dst, dst + 1, dst + 2, with src = (y * w + x) * 4, dst = 54 + y * rowBytes + x * 3
RgbaToBmp(data, w, h) ==
    LET hdr == BmpHeader(w, h)
    IN  [i \in 1..Len(hdr) |->
            LET off == i - 1 - 54
                y   == off \div RowBytes(w)
                c   == off % RowBytes(w)
            IN  IF i <= 54 \/ c >= 3 * w THEN hdr[i]
                ELSE data[(y * w + (c \div 3)) * 4 + (2 - (c % 3)) + 1]]

\* rgbaToBmp is called on the capture
Encode ==
    /\ pc = "idle"
    /\ rgba # NoCapture
    /\ bmp = << >>
    /\ bmp' = RgbaToBmp(rgba.data, rgba.width, rgba.height)
    /\ UNCHANGED <<rvars, rgba, cvars, uvars>>

\* a capture of w x h pixels, all of one colour
Solid(w, h, px) ==
    [data |-> Flatten([i \in 1..(w * h) |-> px]), width |-> w, height |-> h]

\* cc.canvas.images after a render: one to MaxCaptures captures of 1 to 4 pixels
CaptureLists ==
    LET caps == { Solid(d[1], d[2], px) : d \in (1..2) \X (1..2), px \in Palette }
    IN  UNION { [1..k -> caps] : k \in 1..MaxCaptures }

\* lines 262-267: a render has settled and left `captured` on the canvas
PageRendered(captured) ==
    /\ pc = "idle"
    /\ images = << >>
    /\ rgba = NoCapture
    /\ images' = captured
    /\ UNCHANGED <<pc, req, reply, avars, text, total, n, pageTexts, needsOcr,
                   textLayerResult, worker, ocrIdx, escaping, late, stale, faults, hvars,
                   bvars, cvars, uvars>>

\* lines 268-272: the capture given to rgbaToBmp
SelectBest ==
    /\ pc = "idle"
    /\ images # << >>
    /\ rgba = NoCapture
    /\ rgba' = BestImage(images)
    /\ UNCHANGED <<rvars, bmp, cvars, uvars>>

\* lines 266-274: from the captures of a render to the bitmap sent to OCR
SelectNext ==
    \/ \E c \in CaptureLists : PageRendered(c)
    \/ SelectBest
    \/ Encode

-----------------------------------------------------------------------------
(* StubCanvas and the 2D context makeCtx gives it *)

\* two StubCanvas objects: the page's canvas and a temporary one of pdfjs
Surfaces == {1, 2}

\* methods of the context that are `noop` or return a constant
NoOpMethods == {"save", "setTransform", "fillRect", "clip", "fillText",
                "measureText", "createLinearGradient", "getImageData"}

\* a pixel object { data, width, height }: `bytes` is data as an array of bytes,
\* `backing` the bytes of data.buffer; kind "clamped" is a Uint8ClampedArray,
\* "view" another typed array, "array" a plain array, "none" a missing data
Pix(kind, bytes, backing, w, h) ==
    [kind |-> kind, bytes |-> bytes, backing |-> backing, width |-> w, height |-> h]

PixelObjects ==
    { Pix("clamped", <<1, 2, 3, 4>>, <<1, 2, 3, 4>>, 1, 1),
      Pix("clamped", <<5, 6, 7, 8, 9, 10, 11, 12>>, <<5, 6, 7, 8, 9, 10, 11, 12>>, 2, 1),
      Pix("clamped", <<1, 2, 3>>, <<1, 2, 3>>, 1, 1),
      Pix("clamped", << >>, << >>, 0, 1),
      Pix("clamped", <<1, 2, 3, 4>>, <<1, 2, 3, 4>>, -1, -1),
      Pix("view", <<1, 2, 3, 4>>, <<1, 2, 3, 4>>, 1, 1),
      Pix("view", <<5, 6, 7, 8>>, <<1, 2, 3, 4, 5, 6, 7, 8>>, 1, 1),
      Pix("view", <<5, 6, 7, 8>>, <<1, 2, 3, 4, 5, 6, 7, 8>>, 2, 1),
      Pix("array", <<1, 2, 3, 4>>, << >>, 1, 1),
      Pix("none", << >>, << >>, 1, 1) }

NoCallsMade == [noops |-> 0, valid |-> << >>, invalid |-> 0, canvases |-> 0]

CallsMade(h) == h.noops + Len(h.valid) + h.invalid + h.canvases
AllCallsMade == CallsMade(hist[1]) + CallsMade(hist[2])

\* the pixel object has width, height >= 1 and data of width * height * 4 bytes
ValidPlacement(img) ==
    /\ img.kind # "none"
    /\ img.width > 0 /\ img.height > 0
    /\ Len(img.bytes) = img.width * img.height * 4

\* the observation after a drawImage / putImageData with a pixel object
Placed(h, img) ==
    IF ValidPlacement(img) THEN [h EXCEPT !.valid = Append(@, img)]
    ELSE [h EXCEPT !.invalid = @ + 1]

\* lines 82-84 and 136-138: data itself when it is a Uint8ClampedArray, else
\* new Uint8ClampedArray(data.buffer ?? data)
Rewrapped(img) ==
    IF img.kind = "clamped" THEN img.bytes
    ELSE IF img.kind = "view" THEN img.backing
    ELSE [i \in 1..Len(img.bytes) |->
             IF img.bytes[i] > 255 THEN 255
             ELSE IF img.bytes[i] < 0 THEN 0 ELSE img.bytes[i]]

Captured(img) ==
    [data |-> Rewrapped(img), width |-> img.width, height |-> img.height]

\* lines 80-89: capture() of a pixel object (Scenario B)
CaptureRaw(imgs, img) ==
    IF img.kind # "none" /\ img.width > 0 /\ img.height > 0
       /\ Len(Rewrapped(img)) = img.width * img.height * 4
    THEN Append(imgs, Captured(img))
    ELSE imgs

\* lines 134-142: putImageData
PutRaw(imgs, img) ==
    IF img.kind = "none" \/ img.width = 0 \/ img.height = 0 THEN imgs
    ELSE IF Len(Rewrapped(img)) = img.width * img.height * 4
         THEN Append(imgs, Captured(img))
         ELSE imgs

\* any of the no-op methods of the context of canvas s is called
NoOpCall(s, m) ==
    /\ pc = "idle"
    /\ AllCallsMade < MaxCalls
    /\ hist' = [hist EXCEPT ![s].noops = @ + 1]
    /\ UNCHANGED <<rvars, bvars, uvars, surf>>

\* drawImage(img) on the context of canvas s, img a pixel object
DrawImage(s, img) ==
    /\ pc = "idle"
    /\ AllCallsMade < MaxCalls
    /\ surf' = [surf EXCEPT ![s] = CaptureRaw(@, img)]
    /\ hist' = [hist EXCEPT ![s] = Placed(@, img)]
    /\ UNCHANGED <<rvars, bvars, uvars>>

\* lines 76-79: drawImage(canvas) on the context of canvas s, canvas the
\* StubCanvas c: its images are appended
DrawCanvas(s, c) ==
    /\ pc = "idle"
    /\ AllCallsMade < MaxCalls
    /\ surf' = [surf EXCEPT ![s] = @ \o surf[c]]
    /\ hist' = [hist EXCEPT ![s].canvases = @ + 1]
    /\ UNCHANGED <<rvars, bvars, uvars>>

\* putImageData(imgData) on the context of canvas s
PutImageData(s, img) ==
    /\ pc = "idle"
    /\ AllCallsMade < MaxCalls
    /\ surf' = [surf EXCEPT ![s] = PutRaw(@, img)]
    /\ hist' = [hist EXCEPT ![s] = Placed(@, img)]
    /\ UNCHANGED <<rvars, bvars, uvars>>

CanvasNext ==
    \/ \E s \in Surfaces, m \in NoOpMethods : NoOpCall(s, m)
    \/ \E s \in Surfaces, img \in PixelObjects : DrawImage(s, img)
    \/ \E s \in Surfaces, c \in Surfaces : DrawCanvas(s, c)
    \/ \E s \in Surfaces, img \in PixelObjects : PutImageData(s, img)

-----------------------------------------------------------------------------
(* The home page: handleGenerate, handleLengthChoice, runAnalysis *)

NoText == <<"null">>

\* what /api/parse-resume may answer; a 200 answer carries a trimmed text with
\* a visible character and the tooLong flag, which is all the page reads
ParseTexts ==
    { <<"a", " ", "b">>,
      <<"a", " ", "\t", " ", "b", "\r", "\n", "c", "\r", "d">>,
      <<"a", " ", "\n", "\n", "\n", " ", "\n", "b">> }
ParseAnswers ==
    [ok : {TRUE}, text : ParseTexts, tooLong : BOOLEAN]
    \cup [ok : {FALSE}, text : {<< >>}, tooLong : {FALSE}]
NoParse == [ok |-> FALSE, text |-> << >>, tooLong |-> FALSE, at |-> 0]

\* .replace(/\r\n/g, "\n").replace(/\r/g, "\n")
RECURSIVE CrToLf(_)
CrToLf(s) ==
    IF s = << >> THEN << >>
    ELSE IF Head(s) = "\r"
         THEN IF Len(s) >= 2 /\ s[2] = "\n"
              THEN <<"\n">> \o CrToLf(Tail(Tail(s)))
              ELSE <<"\n">> \o CrToLf(Tail(s))
         ELSE <<Head(s)>> \o CrToLf(Tail(s))

Blank(c) == c \in WhiteSpace \ {"\n"}

RECURSIVE SkipBlanks(_)
SkipBlanks(s) == IF s # << >> /\ Blank(Head(s)) THEN SkipBlanks(Tail(s)) ELSE s

\* .replace(/[^\S\n]+/g, " ")
RECURSIVE SqueezeBlanks(_)
SqueezeBlanks(s) ==
    IF s = << >> THEN << >>
    ELSE IF Blank(Head(s)) THEN <<" ">> \o SqueezeBlanks(SkipBlanks(s))
         ELSE <<Head(s)>> \o SqueezeBlanks(Tail(s))

\* .replace(/ \n/g, "\n")
RECURSIVE DropSpaceBeforeLf(_)
DropSpaceBeforeLf(s) ==
    IF s = << >> THEN << >>
    ELSE IF Len(s) >= 2 /\ s[1] = " " /\ s[2] = "\n"
         THEN <<"\n">> \o DropSpaceBeforeLf(Tail(Tail(s)))
         ELSE <<Head(s)>> \o DropSpaceBeforeLf(Tail(s))

RECURSIVE SkipLfs(_)
SkipLfs(s) == IF s # << >> /\ Head(s) = "\n" THEN SkipLfs(Tail(s)) ELSE s

\* .replace(/\n{3,}/g, "\n\n")
RECURSIVE SqueezeLfs(_)
SqueezeLfs(s) ==
    IF s = << >> THEN << >>
    ELSE IF Head(s) = "\n"
         THEN LET rest == SkipLfs(s)
                  run  == Len(s) - Len(rest)
              IN  Rep("\n", IF run >= 3 THEN 2 ELSE run) \o SqueezeLfs(rest)
         ELSE <<Head(s)>> \o SqueezeLfs(Tail(s))

\* lines 162-168: the text the page keeps from the parse answer
Normalize(t) == Trim(SqueezeLfs(DropSpaceBeforeLf(SqueezeBlanks(CrToLf(t)))))

AnalyzeBodyNeverCondensed(kept, condense) ==
    [resumeText |-> kept, condenseResume |-> FALSE]
\* lines 94-99: the body of the POST to /api/analyze
AnalyzeBody(kept, condense) ==
    [resumeText |-> kept, condenseResume |-> condense]

PageLoaded ==
    /\ cpc = "ready"
    /\ ui = [isLoading |-> FALSE, error |-> "", pendingResumeText |-> NoText,
             showLengthWarning |-> FALSE]
    /\ parse = NoParse
    /\ sent = << >>
    /\ picked = << >>
    /\ tries = 0

\* lines 127-145: a click on the generate button (enabled while not loading)
Generate(hasFile, titleOk, descOk) ==
    /\ cpc = "ready"
    /\ ~ui.isLoading
    /\ tries < MaxTries
    /\ tries' = tries + 1
    /\ IF ~hasFile \/ ~titleOk \/ ~descOk
       THEN /\ ui' = [ui EXCEPT !.error = "missing input",
                                !.showLengthWarning = FALSE,
                                !.pendingResumeText = NoText]
            /\ UNCHANGED cpc
       ELSE /\ ui' = [ui EXCEPT !.error = "", !.showLengthWarning = FALSE,
                                !.pendingResumeText = NoText, !.isLoading = TRUE]
            /\ cpc' = "parsing"
    /\ UNCHANGED <<rvars, bvars, cvars, parse, sent, picked>>

\* lines 157-185: the parse answer arrives
ParseAnswered(a) ==
    /\ cpc = "parsing"
    /\ parse' = [ok |-> a.ok, text |-> a.text, tooLong |-> a.tooLong, at |-> Len(sent)]
    /\ picked' = << >>
    /\ IF ~a.ok
       THEN /\ ui' = [ui EXCEPT !.error = "Failed to parse resume", !.isLoading = FALSE]
            /\ cpc' = "ready"
            /\ UNCHANGED sent
       ELSE IF a.tooLong
       THEN /\ ui' = [ui EXCEPT !.pendingResumeText = Normalize(a.text),
                                !.showLengthWarning = TRUE, !.isLoading = FALSE]
            /\ cpc' = "ready"
            /\ UNCHANGED sent
       ELSE /\ sent' = Append(sent, AnalyzeBody(Normalize(a.text), FALSE))
            /\ cpc' = "analyzing"
            /\ UNCHANGED ui
    /\ UNCHANGED <<rvars, bvars, cvars, tries>>

\* lines 114-119: a click on one of the two buttons of the warning card
LengthChoice(condense) ==
    /\ cpc = "ready"
    /\ ui.showLengthWarning
    /\ picked' = Append(picked, condense)
    /\ IF ui.pendingResumeText \in {NoText, << >>}
       THEN UNCHANGED <<ui, sent, cpc>>
       ELSE /\ ui' = [ui EXCEPT !.showLengthWarning = FALSE, !.isLoading = TRUE]
            /\ sent' = Append(sent, AnalyzeBody(ui.pendingResumeText, condense))
            /\ cpc' = "analyzing"
    /\ UNCHANGED <<rvars, bvars, cvars, parse, tries>>

\* lines 102-110 with 120-124 / 180-184: the analyze answer arrives
AnalyzeAnswered(ok) ==
    /\ cpc = "analyzing"
    /\ IF ok
       THEN /\ cpc' = "results"
            /\ ui' = [ui EXCEPT !.isLoading = FALSE]
       ELSE /\ cpc' = "ready"
            /\ ui' = [ui EXCEPT !.error = "Analysis failed", !.isLoading = FALSE]
    /\ UNCHANGED <<rvars, bvars, cvars, parse, sent, picked, tries>>

ClientNext ==
    \/ \E f \in BOOLEAN, t \in BOOLEAN, d \in BOOLEAN : Generate(f, t, d)
    \/ \E a \in ParseAnswers : ParseAnswered(a)
    \/ \E c \in BOOLEAN : LengthChoice(c)
    \/ \E ok \in BOOLEAN : AnalyzeAnswered(ok)

-----------------------------------------------------------------------------

RoutesIdle ==
    /\ pc = "idle"
    /\ req = NoRequest
    /\ reply = NoReply
    /\ resumeText = << >>
    /\ timer = "unset"
    /\ aborted = FALSE
    /\ fetchCount = 0
    /\ cloud = NoCloud
    /\ cloudResp = NoResponse
    /\ text = << >>
    /\ total = 0
    /\ n = 0
    /\ pageTexts = << >>
    /\ needsOcr = << >>
    /\ textLayerResult = << >>
    /\ worker = "none"
    /\ ocrIdx = 0
    /\ images = << >>
    /\ escaping = FALSE
    /\ late = 0
    /\ stale = 0
    /\ faults = 0
    /\ layerText = << >>
    /\ ocrOut = << >>
    /\ calls = NoCalls
    /\ threw = {}
    /\ pdfNumPages = 0

Init ==
    /\ RoutesIdle
    /\ rgba = NoCapture
    /\ bmp = << >>
    /\ surf = [s \in Surfaces |-> << >>]
    /\ hist = [s \in Surfaces |-> NoCallsMade]
    /\ PageLoaded

Next ==
    /\ AnalyzeNext \/ ParseNext
    /\ UNCHANGED <<bvars, cvars, uvars>>

Spec == Init /\ [][Next]_vars

PdfSpec == Init /\ [][PdfNext]_vars

\* rgbaToBmp applied to one capture
BmpInit ==
    /\ RoutesIdle
    /\ rgba \in RgbaInputs
    /\ bmp = << >>
    /\ surf = [s \in Surfaces |-> << >>]
    /\ hist = [s \in Surfaces |-> NoCallsMade]
    /\ PageLoaded

BmpSpec == BmpInit /\ [][Encode]_vars

\* calls on the 2D contexts of fresh stub canvases
CanvasSpec == Init /\ [][CanvasNext]_vars

\* the OCR pass of processPdf with late settlements of its promises
RaceSpec == Init /\ [][RaceNext]_vars

\* the format dispatcher of /api/parse-resume
DispatchSpec == Init /\ [][DispatchNext]_vars

\* lines 266-274 of processPdf standing alone
SelectSpec == Init /\ [][SelectNext]_vars

\* /api/parse-resume handling PDF uploads at and beyond the page limit
LongPdfSpec == Init /\ [][LongPdfNext]_vars

\* the home page: generate, length warning, analysis
ClientSpec == Init /\ [][ClientNext]_vars

-----------------------------------------------------------------------------
(* Properties *)

IsBlank(t) == \A i \in 1..Len(t) : t[i] \in WhiteSpace

SupportedMimes == {PDF_MIME, DOCX_MIME, TXT_MIME, RTF_MIME, RTF_MIME2}
KnownExts == {".docx", ".txt", ".rtf", ".pdf"}

Expected == ExperienceEngineer \o <<NL>> \o EducationMSc

\* the OCR.space answer was HTTP-ok, readable, not errored, and the call was
\* not aborted: the cloud call succeeded
CloudAnswered ==
    /\ req.route = "analyze"
    /\ pc \in {"a_validate", "done"}
    /\ cloudResp.ok /\ cloudResp.json /\ ~cloudResp.errored
    /\ ~aborted

\* C1: when the cloud OCR call succeeds with text of at least MIN_CHARS_PER_PAGE
\* characters, the text-layer extractor, the OCR worker, render and recognize
\* are never invoked, and the cloud text is the extraction result.
C1_CloudShortCircuit ==
    (CloudAnswered /\ Len(OcrSpaceText(cloudResp.results)) >= MIN_CHARS_PER_PAGE)
    => /\ cloud = [kind |-> "ok", text |-> OcrSpaceText(cloudResp.results)]
       /\ resumeText = cloud.text
       /\ calls.textLayer = 0 /\ calls.workerStart = 0
       /\ calls.render = 0 /\ calls.recognize = 0
       /\ reply.status # 422

C1_Witness ==
    /\ CloudAnswered
    /\ pc = "done" /\ reply.status = 200
    /\ Len(resumeText) >= MIN_CHARS_PER_PAGE
    /\ IsBlank(<<Head(cloudResp.results[1])>>)

\* C2: a cloud OCR failure (non-success HTTP status, IsErroredOnProcessing,
\* empty parsed text) is never surfaced to the caller; the pipeline falls back
\* to local text-layer extraction for the same document.
C2_CloudFailureFallsBack ==
    (pc = "done" /\ cloud.kind \in {"http", "errored", "empty"})
    => /\ reply.status # 500
       /\ calls.textLayer > 0

\* C3: a PDF above OCR_SPACE_MAX_BYTES is not failed: the cloud tier is skipped
\* and the text-layer tier runs for it.
C3_OversizeProceedsToTextLayer ==
    (pc = "done" /\ cloud.kind # "none" /\ req.file.size > OCR_SPACE_MAX_BYTES)
    => /\ fetchCount = 0
       /\ reply.status # 500
       /\ calls.textLayer > 0

\* C4: no fetch is issued for a document larger than OCR_SPACE_MAX_BYTES; the
\* size rejection happens before the timer and the fetch, only above the
\* ceiling; a document of exactly the ceiling (API key present) is fetched.
C4_FetchOnlyUpToCeiling ==
    /\ fetchCount > 0 => req.file.size <= OCR_SPACE_MAX_BYTES
    /\ cloud.kind = "size"
       => (req.file.size > OCR_SPACE_MAX_BYTES /\ fetchCount = 0 /\ timer = "unset")
    /\ (cloud.kind # "none" /\ req.file.size > OCR_SPACE_MAX_BYTES)
       => cloud.kind = "size"
    /\ (/\ req.file.size = OCR_SPACE_MAX_BYTES /\ req.hasKey
        /\ (cloud.kind # "none" \/ pc \in {"ocr_fetch", "ocr_json"}))
       => fetchCount = 1

C4_Witness ==
    /\ req.file.size = OCR_SPACE_MAX_BYTES
    /\ fetchCount = 1
    /\ pc = "ocr_fetch"

\* the text-layer pass of processPdf is over and pushed no page for OCR
AllPagesSufficient ==
    /\ req.route = "parse"
    /\ pc \in {"p_check", "done"}
    /\ total > 0 /\ n > total
    /\ needsOcr = << >>

\* C5: when the text-layer tier leaves no page needing OCR, the OCR worker is
\* never started, no page is rendered or recognized, and the returned text is
\* the per-page text-layer strings joined with newlines.
C5_AllSufficientSkipsOcr ==
    AllPagesSufficient
    => /\ worker = "none" /\ calls.workerStart = 0
       /\ calls.render = 0 /\ calls.recognize = 0
       /\ \A p \in 1..total : Len(layerText[p]) >= MIN_CHARS_PER_PAGE
       /\ text = Join(layerText, NL)
       /\ pc = "done" => (reply.status = 200 /\ reply.text = text)

C5_Witness ==
    /\ AllPagesSufficient
    /\ total = 2
    /\ pc = "done" /\ reply.status = 200
    /\ Len(reply.text) = 2 * MIN_CHARS_PER_PAGE + 1

\* C6: if the recognition of a page loses the race against its timer, the
\* text of that page stays what the text-layer tier produced, never OCR
\* output, and the remaining pages of the pass are still processed.
C6_TimeoutKeepsTextLayer ==
    /\ \A p \in 1..Len(ocrOut) :
          ocrOut[p].last = "timeout" => pageTexts[p] = layerText[p]
    /\ (/\ pc \in {"p_check", "done"}
        /\ \E p \in 1..Len(ocrOut) : ocrOut[p].last = "timeout")
       => ocrIdx > Len(needsOcr)

\* the scenario of C7: two pages, text layer "Experience\nEngineer" and "",
\* and a recognition of page 2 that returned "Education\nMSc"
C7_Scenario ==
    /\ req.route = "parse"
    /\ pc = "done" /\ reply.status = 200
    /\ layerText = << ExperienceEngineer, << >> >>
    /\ ocrOut[2].won /\ ocrOut[2].text = EducationMSc

C8_NoTierErrorEscapes ==
    (req.route = "parse" /\ pc = "done" /\ calls.textLayer > 0)
    => (reply.status \in {200, 422} /\ ~escaping)

\* no extraction tier ran and the answer is the unsupported-type error
RejectedUnsupported ==
    /\ pc = "done"
    /\ reply = UnsupportedReply
    /\ calls = NoCalls /\ worker = "none" /\ total = 0

\* C9 as stated: a declared media type outside {PDF, DOCX, TXT, RTF} is
\* rejected with UnsupportedFormat and no tier runs.
C9_Original ==
    (/\ req.route = "parse" /\ req.file.present
     /\ pc \notin {"idle", "p_parse"}
     /\ req.file.mime \notin SupportedMimes)
    => RejectedUnsupported

\* C9 amended: the same for a file whose lower-cased name does not end in
\* .docx, .txt, .rtf or .pdf either.
C9_UnsupportedRejected ==
    (/\ req.route = "parse" /\ req.file.present
     /\ pc \notin {"idle", "p_parse"}
     /\ req.file.mime \notin SupportedMimes
     /\ req.file.ext \notin KnownExts)
    => RejectedUnsupported

C9_Witness ==
    /\ req.route = "parse"
    /\ req.file.mime = PNG_MIME /\ req.file.ext = ".png"
    /\ RejectedUnsupported

\* C10: a 200 answer of /api/parse-resume carries a text with a non-blank
\* character; an extraction that ends with an empty text is answered 422 with
\* the scanned-PDF hint, which differs in status and message from the generic
\* 500 failure and from the 400 unsupported-type error.
C10_SuccessHasText ==
    (req.route = "parse" /\ pc = "done")
    => /\ reply.status = 200
          => (reply.text = text /\ reply.text # << >> /\ ~IsBlank(reply.text))
       /\ reply.status \in {200, 422} => (reply.status = 422 <=> IsBlank(text))
       /\ reply.status = 422 => reply = EmptyResultReply
       /\ EmptyResultReply.status \notin {GenericFailure.status, UnsupportedReply.status}
       /\ EmptyResultReply.err \notin {GenericFailure.err, UnsupportedReply.err}

C10_Witness ==
    /\ req.route = "parse"
    /\ pc = "done" /\ reply = EmptyResultReply
    /\ calls.recognize > 0

\* C11: in every successful answer of /api/parse-resume, tooLong is true
\* exactly when the text is longer than TOO_LONG_CHARS; a text of exactly
\* TOO_LONG_CHARS characters gives tooLong = FALSE.
C11_TooLongIffOverThreshold ==
    (req.route = "parse" /\ pc = "done" /\ reply.status = 200)
    => /\ reply.tooLong <=> Len(reply.text) >= TOO_LONG_CHARS + 1
       /\ Len(reply.text) = TOO_LONG_CHARS => ~reply.tooLong

C11_Witness ==
    /\ req.route = "parse"
    /\ pc = "done" /\ reply.status = 200
    /\ Len(reply.text) = TOO_LONG_CHARS
    /\ ~reply.tooLong

\* processPdf returned after its OCR pass (the worker had been started and no
\* exception left the page loop)
ReturnedAfterOcrPass ==
    /\ req.route = "parse"
    /\ pc \in {"p_check", "done"}
    /\ calls.workerStart > 0
    /\ ~escaping

\* C12: the text processPdf returns after an OCR pass is the longer of the
\* complete text-layer result and the complete OCR-augmented result, compared
\* once every entry of needsOcr has been visited; on equal lengths it is the
\* text-layer result.
C12_LongerResultReturned ==
    ReturnedAfterOcrPass
    => LET layerResult == Trim(Join(layerText, NL))
           ocrResult   == Trim(Join(pageTexts, NL))
       IN  /\ ocrIdx > Len(needsOcr)
           /\ text \in {layerResult, ocrResult}
           /\ Len(text) >= Len(layerResult) /\ Len(text) >= Len(ocrResult)
           /\ Len(ocrResult) = Len(layerResult) => text = layerResult

C12_Witness ==
    /\ ReturnedAfterOcrPass
    /\ pc = "done" /\ reply.status = 200
    /\ Len(Trim(Join(pageTexts, NL))) = Len(Trim(Join(layerText, NL)))
    /\ pageTexts # layerText
    /\ reply.text = Trim(Join(layerText, NL))

\* C13: every page's text in the returned result is the longest candidate a
\* tier produced for that page (its text-layer text, or the output of its
\* recognition): a shorter or empty OCR output never replaces a page's
\* non-empty text-layer text.
C13_PageKeepsLongestCandidate ==
    (/\ req.route = "parse" /\ pc \in {"p_check", "done"}
     /\ total > 0 /\ n > total /\ ~escaping)
    => \E pages \in {pageTexts, layerText} :
          /\ text = Trim(Join(pages, NL))
          /\ \A p \in 1..total :
                /\ Len(pages[p]) >= Len(layerText[p])
                /\ ocrOut[p].won => Len(pages[p]) >= Len(ocrOut[p].text)

\* C14: at most one OCR worker is started per document; a started worker
\* exists only while the OCR pass runs, and once the pass is left (normally,
\* after page errors or timeouts, or by an escaping exception) the worker
\* has been terminated, exactly once.
C14_OneWorkerAlwaysTerminated ==
    /\ calls.workerStart <= 1
    /\ calls.terminate <= calls.workerStart
    /\ worker = "started"
       => pc \in {"ocr_loop", "ocr_render", "ocr_race", "ocr_exit"}
    /\ (pc \in {"p_check", "done"} /\ calls.workerStart = 1)
       => (worker = "terminated" /\ calls.terminate = 1)

C14_Witness ==
    /\ pc = "done"
    /\ escaping /\ reply = GenericFailure
    /\ calls.timeouts = 1
    /\ calls.workerStart = 1
    /\ worker = "terminated"

\* reading a BMP file: little-endian fields of the two headers
Field(b, off, k) ==
    LET RECURSIVE Sum(_)
        Sum(i) == IF i = 0 THEN 0 ELSE b[off + i] * 256 ^ (i - 1) + Sum(i - 1)
    IN  Sum(k)
\* a signed 32-bit field: a set top bit means minus (complement + 1)
SignedField(b, off) ==
    IF b[off + 4] < 128 THEN Field(b, off, 4)
    ELSE 0 - (Field([i \in 1..Len(b) |-> 255 - b[i]], off, 4) + 1)

BmpWidth(b) == SignedField(b, 18)
BmpHeightField(b) == SignedField(b, 22)
BmpHeight(b) == IF BmpHeightField(b) < 0 THEN 0 - BmpHeightField(b) ELSE BmpHeightField(b)
BmpOffset(b) == Field(b, 10, 4)
BmpBits(b) == Field(b, 28, 2)
\* rows are stored in multiples of four bytes
BmpStride(b) == ((BmpBits(b) * BmpWidth(b) + 31) \div 32) * 4
\* pixel (x, y), y counted from the top, as <<R, G, B>>
BmpPixel(b, x, y) ==
    LET row == IF BmpHeightField(b) < 0 THEN y ELSE BmpHeight(b) - 1 - y
        at  == BmpOffset(b) + row * BmpStride(b) + 3 * x
    IN  <<b[at + 3], b[at + 2], b[at + 1]>>

\* the least multiple of 4 that is at least 3w, i.e. 4 * ceil(3w / 4)
PaddedRow(w) == CHOOSE r \in (3 * w)..(3 * w + 3) : r % 4 = 0

\* C15: read back as a top-down 24-bit BMP, the output of rgbaToBmp gives for
\* every pixel the R, G, B bytes of the source (alpha dropped); rows take
\* 4 * ceil(3w / 4) bytes, the file has 54 + h * rowBytes bytes, and the
\* padding bytes of every row are zero.
C15_BmpRoundTrip ==
    bmp # << >>
    => LET w == rgba.width
           h == rgba.height
       IN  /\ bmp[1] = 66 /\ bmp[2] = 77
           /\ Field(bmp, 2, 4) = Len(bmp)
           /\ BmpOffset(bmp) = 54 /\ BmpBits(bmp) = 24
           /\ Field(bmp, 26, 2) = 1 /\ Field(bmp, 30, 4) = 0
           /\ BmpWidth(bmp) = w /\ BmpHeightField(bmp) = 0 - h
           /\ BmpStride(bmp) = PaddedRow(w)
           /\ Len(bmp) = 54 + h * PaddedRow(w)
           /\ \A x \in 0..(w - 1), y \in 0..(h - 1) :
                 BmpPixel(bmp, x, y) =
                    SubSeq(rgba.data, (y * w + x) * 4 + 1, (y * w + x) * 4 + 3)
           /\ \A y \in 0..(h - 1), k \in (3 * w)..(PaddedRow(w) - 1) :
                 bmp[54 + y * PaddedRow(w) + k + 1] = 0

C15_Witness ==
    /\ bmp # << >>
    /\ rgba.width = 3 /\ rgba.height = 2
    /\ Len(bmp) = 54 + 24
    /\ SubSeq(rgba.data, 1, 4) # SubSeq(rgba.data, 17, 20)

\* C16: on a stub canvas that received only no-op calls and exactly one
\* image placement with width, height >= 1 and data of width * height * 4
\* bytes, the list of captured images has exactly one entry, carrying that
\* image's width, height and data.
C16_OneValidPlacementCaptured ==
    \A s \in Surfaces :
        (Len(hist[s].valid) = 1 /\ hist[s].invalid = 0 /\ hist[s].canvases = 0)
        => surf[s] = << [data   |-> hist[s].valid[1].bytes,
                         width  |-> hist[s].valid[1].width,
                         height |-> hist[s].valid[1].height] >>

\* C17: image placements whose data length differs from width * height * 4
\* capture nothing: a canvas that received no placement of the right length
\* (and no other canvas drawn into it) has an empty list of captured images.
C17_MismatchedBufferDropped ==
    \A s \in Surfaces :
        (hist[s].valid = << >> /\ hist[s].canvases = 0) => surf[s] = << >>

\* the page has sent a request to /api/analyze since the latest parse answer
SentSinceParse == Len(sent) > parse.at

\* what C18 says of the page, for `kept` the text the analyze request carries
LengthGate(kept) ==
    /\ ui.showLengthWarning
       => (/\ cpc = "ready" /\ parse.ok /\ parse.tooLong
           /\ ~SentSinceParse /\ picked = << >>)
    /\ (parse.ok /\ parse.tooLong /\ picked = << >> /\ cpc # "parsing")
       => ~SentSinceParse
    /\ SentSinceParse
       => (/\ Len(sent) = parse.at + 1
           /\ parse.ok
           /\ sent[Len(sent)].resumeText = kept
           /\ IF parse.tooLong
              THEN Len(picked) = 1 /\ sent[Len(sent)].condenseResume = picked[1]
              ELSE picked = << >> /\ sent[Len(sent)].condenseResume = FALSE)
    /\ (parse.ok /\ ~parse.tooLong /\ cpc # "parsing") => SentSinceParse

\* C18 as stated: after a tooLong answer no analyze request is sent before a
\* length choice is clicked; the request then carries that choice and the
\* parsed text; without tooLong the request is sent at once with
\* condenseResume FALSE.
C18_Original == LengthGate(parse.text)

\* C18 amended: the same, the text carried being the parsed text after the
\* page's white-space normalisation.
C18_LengthChoiceGatesAnalysis == LengthGate(Normalize(parse.text))

C18_Witness ==
    /\ cpc = "analyzing"
    /\ parse.tooLong
    /\ picked = <<TRUE>>
    /\ sent[Len(sent)].condenseResume
    /\ sent[Len(sent)].resumeText # parse.text
    /\ sent[Len(sent)].resumeText = <<"a", "\n", "\n", "b">>

\* the text-layer loop of processPdf has gone through every page
TextLayerPassOver == req.route = "parse" /\ total > 0 /\ n > total

Occurrences(seq, x) == Cardinality({i \in 1..Len(seq) : seq[i] = x})

\* C19: after the text-layer pass a page is in the needs-OCR list if and only
\* if the length of its trimmed, space-joined text-layer content is below
\* MIN_CHARS_PER_PAGE.
C19_NeedsOcrIffShort ==
    TextLayerPassOver
    => \A p \in 1..total :
         Occurrences(needsOcr, p) > 0 <=> Len(layerText[p]) < MIN_CHARS_PER_PAGE

\* C20: a page whose text-layer extraction threw (getPage, getTextContent or
\* cleanup) stands exactly like a page with empty text: listed once for OCR
\* with an empty text-layer value; and the pass has gone on to the pages after it.
C20_ThrowingPageLikeEmpty ==
    /\ \A p \in threw :
         /\ Occurrences(needsOcr, p) = 1
         /\ layerText[p] = << >>
         /\ pageTexts[p] = << >> \/ ocrOut[p] # NoOcr
         /\ n > p
    /\ (threw # {} /\ pc # "t1_loop") => TextLayerPassOver

\* the page limit applied to the opened document, written out
PagesConsidered == IF pdfNumPages <= MAX_PAGES THEN pdfNumPages ELSE MAX_PAGES

\* C21: only pages 1..min(numPages, MAX_PAGES) are opened, classified,
\* rendered or recognized; the pages beyond contribute nothing to the result
\* and their presence causes no error.
C21_OnlyFirstPagesUsed ==
    (req.route = "parse" /\ pdfNumPages > 0)
    => /\ total = PagesConsidered
       /\ Len(pageTexts) = total /\ Len(layerText) = total /\ Len(ocrOut) = total
       /\ n <= total + 1
       /\ \A i \in 1..Len(needsOcr) : needsOcr[i] \in 1..total
       /\ threw \subseteq 1..total
       /\ pc = "ocr_loop" => ocrIdx <= Len(needsOcr)
       /\ pc \in {"ocr_render", "ocr_race"} => needsOcr[ocrIdx] \in 1..total
       /\ (pc = "done" /\ reply.status = 200)
          => reply.text \in {JoinPages(pageTexts), JoinPages(layerText)}
       /\ (pc = "done" /\ faults = 0) => reply.status \in {200, 422}
       /\ (pc = "done" /\ faults = 0 /\ needsOcr = << >>) => reply.status = 200

C21_Witness ==
    /\ pc = "done" /\ reply.status = 200
    /\ pdfNumPages = MAX_PAGES + MaxDocPages
    /\ total = MAX_PAGES
    /\ needsOcr = <<MAX_PAGES>>
    /\ calls.recognize = 1
    /\ ocrOut[MAX_PAGES].won

\* a step of the OCR pass that ends the current page without a recognition
\* that won its race, the page's cleanup not throwing
PageEndsInError ==
    /\ pc \in {"ocr_loop", "ocr_render", "ocr_race"}
    /\ pc' \in {"ocr_loop", "ocr_exit"}
    /\ ~escaping'
    /\ late' >= late
    /\ ~(pc = "ocr_race" /\ ocrOut'[needsOcr[ocrIdx]].last = "text")

WorkerStartFailed ==
    /\ TextLayerPassOver
    /\ needsOcr # << >>
    /\ pc \in {"p_check", "done"}
    /\ worker = "none"

\* C23: when starting the OCR worker fails, no page is rendered or recognized,
\* no second start is attempted, and processPdf returns the text-layer result
\* computed before the attempt.
C23_WorkerStartFailureKeepsTextLayer ==
    WorkerStartFailed
    => /\ calls.render = 0 /\ calls.recognize = 0
       /\ calls.workerStart = 0 /\ calls.terminate = 0
       /\ ocrIdx = 0
       /\ pageTexts = layerText
       /\ textLayerResult = Trim(Join(layerText, NL))
       /\ text = textLayerResult
       /\ pc = "done" => reply = FinalReply(textLayerResult)

C23_Witness ==
    /\ WorkerStartFailed
    /\ pc = "done" /\ reply.status = 200
    /\ total = 2 /\ needsOcr = <<1>>
    /\ layerText[1] = << >>
    /\ reply.text = layerText[2]

\* the request to OCR.space is pending: fetch() or response.json() is awaited
CloudInFlight == pc \in {"ocr_fetch", "ocr_json"}

\* C24: the cloud request is sent at most once; an expiry of the timer while
\* it is in flight aborts it and the tier fails; once the call has settled the
\* timer is no longer armed, and an abort is only ever signalled in flight.
C24_CloudCallBoundedByTimer ==
    /\ [](/\ fetchCount <= 1
          /\ timer = "armed" => (CloudInFlight /\ fetchCount = 1)
          /\ (fetchCount = 1 /\ ~CloudInFlight) => timer \in {"fired", "cleared"}
          /\ timer = "fired" <=> aborted
          /\ aborted => (/\ pc = "done"
                         /\ cloud = Thrown("abort")
                         /\ reply = CatchReply("abort")
                         /\ resumeText = << >>))
    /\ [][(aborted' /\ ~aborted) => (CloudInFlight /\ timer = "armed")]_vars
    /\ [][fetchCount' # fetchCount => (fetchCount = 0 /\ timer = "unset")]_vars

C24_Witness ==
    /\ aborted /\ timer = "fired"
    /\ fetchCount = 1
    /\ cloudResp.ok
    /\ pc = "done" /\ reply.status = 500

\* C25: when the render of a page begins its surface holds no capture; the
\* images considered for the page are the captures of its own render; after
\* the page's destroy, and so between two pages, the list is empty again.
C25_NoCaptureLeak ==
    /\ [](/\ pc = "ocr_render" => images = << >>
          /\ pc = "ocr_race" => (images \in RenderChoices /\ images # << >>)
          /\ (pc \in {"ocr_loop", "ocr_exit"} /\ ~escaping) => images = << >>)
    /\ [][pc = "ocr_render" /\ pc' = "ocr_race"
          => \E c \in RenderChoices : images' = c]_vars
    /\ [][pc = "ocr_race" /\ pc' = "ocr_loop" => (images # << >> /\ images' = << >>)]_vars

C25_Witness ==
    /\ pc = "ocr_render" /\ ocrIdx = 2
    /\ images = << >>
    /\ needsOcr = <<1, 2>>
    /\ ocrOut[1].won
    /\ calls.render = 1 /\ calls.recognize = 1

\* the largest area among the captures of the render
MaxArea == CHOOSE a \in {Area(images[i]) : i \in 1..Len(images)} :
               \A j \in 1..Len(images) : Area(images[j]) <= a

\* the first capture having that area
FirstLargest == CHOOSE i \in 1..Len(images) :
                    /\ Area(images[i]) = MaxArea
                    /\ \A j \in 1..(i - 1) : Area(images[j]) < MaxArea

\* C26: of the captures of a page render exactly one is encoded; no capture
\* of the page has a larger area, and among the captures of that largest area
\* it is the earliest.
C26_LargestEarliestCaptureEncoded ==
    (images # << >> /\ rgba # NoCapture)
    => /\ \A j \in 1..Len(images) : Area(images[j]) <= Area(rgba)
       /\ rgba = images[FirstLargest]
       /\ bmp # << >> => bmp = RgbaToBmp(rgba.data, rgba.width, rgba.height)

C26_Witness ==
    /\ Len(images) = 3
    /\ Area(images[1]) = 1
    /\ Area(images[2]) = 2 /\ Area(images[3]) = 2
    /\ images[2] # images[3]
    /\ rgba = images[2]
    /\ bmp # << >>

\* C27: whatever drawImage and putImageData calls were made on the stub
\* canvases, every captured image of every canvas has width > 0, height > 0
\* and exactly width * height * 4 bytes of data.
C27_CapturesWellFormed ==
    \A s \in Surfaces : \A i \in 1..Len(surf[s]) :
        /\ surf[s][i].width > 0
        /\ surf[s][i].height > 0
        /\ Len(surf[s][i].data) = surf[s][i].width * surf[s][i].height * 4

\* C28: the needs-OCR list holds each page at most once, in ascending order,
\* so no page is rendered or recognized more than once per document.
C28_NeedsOcrStrictlyAscending ==
    /\ \A i \in 1..Len(needsOcr) : \A j \in 1..Len(needsOcr) :
           i < j => needsOcr[i] < needsOcr[j]
    /\ calls.render <= total
    /\ calls.recognize <= total

\* what processPdf and POST work on, apart from the pending promises
PassState == <<pc, reply, text, pageTexts, textLayerResult, needsOcr, ocrIdx,
               worker, images, escaping, ocrOut, calls>>

\* C29: a recognition that settles after it lost its race, and a timer that
\* fires after its race was won by recognize, change no page's text and
\* nothing of the pass; a recognize is issued only when no race is undecided.
C29_LateSettlementsHaveNoEffect ==
    /\ [][(late' < late \/ stale' < stale) => UNCHANGED PassState]_vars
    /\ [][calls.recognize' # calls.recognize
          => /\ pc = "ocr_render" /\ pc' = "ocr_race"
             /\ calls.recognize' = calls.recognize + 1]_vars
    /\ [][pc = "ocr_race" => calls.recognize' = calls.recognize]_vars

C29_Witness ==
    /\ pc = "done" /\ reply.status = 200
    /\ needsOcr = <<1, 2>>
    /\ ocrOut[1].last = "timeout" /\ pageTexts[1] = ExperienceEngineer
    /\ ocrOut[2].won /\ calls.recognize = 2
    /\ late = 0 /\ stale = 0

\* the four tests of the dispatcher, on the media type and the lower-cased name
IsDocx == req.file.mime = DOCX_MIME \/ ToLowerCase(req.file.ext) = ".docx"
IsTxt  == req.file.mime = TXT_MIME \/ ToLowerCase(req.file.ext) = ".txt"
IsRtf  == req.file.mime \in {RTF_MIME, RTF_MIME2} \/ ToLowerCase(req.file.ext) = ".rtf"
IsPdf  == req.file.mime = PDF_MIME \/ ToLowerCase(req.file.ext) = ".pdf"

\* control locations inside processPdf
PdfLocations == {"pdf_import", "pdf_open", "t1_loop", "worker_start", "ocr_loop",
                 "ocr_render", "ocr_race", "ocr_exit"}

\* the request went past the dispatcher
Dispatched ==
    /\ req.route = "parse" /\ req.ctype = "multipart/form-data" /\ req.file.present
    /\ pc \notin {"idle", "p_parse"}

\* C30: one extraction branch runs per request, the first whose test matches
\* in the order DOCX, TXT, RTF, PDF, each test being on the media type or the
\* lower-cased extension; a request matching none gets the unsupported-type
\* error.
C30_FirstMatchingBranchRuns ==
    Dispatched
    => /\ calls.mammoth + calls.decode + calls.textLayer <= 1
       /\ IF IsDocx
          THEN /\ pc \in {"p_docx", "p_check", "done"}
               /\ calls.decode = 0 /\ calls.textLayer = 0
               /\ pc # "p_docx" => calls.mammoth = 1
          ELSE IF IsTxt \/ IsRtf
          THEN /\ pc \in {IF IsTxt THEN "p_txt" ELSE "p_rtf", "p_check", "done"}
               /\ calls.mammoth = 0 /\ calls.textLayer = 0
               /\ pc \in {"p_check", "done"} => calls.decode = 1
          ELSE IF IsPdf
          THEN /\ pc \in PdfLocations \cup {"p_check", "done"}
               /\ calls.mammoth = 0 /\ calls.decode = 0
               /\ pc \in {"p_check", "done"} => calls.textLayer = 1
               /\ pc = "done" => reply # UnsupportedReply
          ELSE /\ pc = "done" /\ reply = UnsupportedReply
               /\ calls = NoCalls

C30_Witness ==
    /\ Dispatched
    /\ req.file.mime = PDF_MIME /\ req.file.ext = ".Docx"
    /\ calls.mammoth = 1 /\ calls.textLayer = 0
    /\ pc = "done" /\ reply.status = 200

=============================================================================
